---- MODULE Spec2Model ----
(***************************************************************************)
(* Model of common/base/Drm.cpp: the DRM/KMS resource manager of the       *)
(* hardware composer.  The state is the Drm object (mInitialized, mDrmFd,  *)
(* mOutputs[OUTPUT_MAX]) together with the resources it drives outside     *)
(* itself: the kernel framebuffer objects, the pixel buffers of the        *)
(* buffer manager, the libdrm descriptors and the device file descriptor.  *)
(* Every public method is one action; the kernel's and the allocator's     *)
(* answers are inputs of the action.                                       *)
(***************************************************************************)
EXTENDS Integers, Sequences, FiniteSets, TLC

\* ---------------------------------------------------------------- bounds
MaxModes == 2        \* longest mode list of an external display
MaxPanelModes == 1   \* longest mode list of the built-in panel
MaxConnectors == 2   \* longest resources->connectors
MaxEncoders == 2     \* longest resources->encoders
MaxCrtcs == 2        \* longest resources->crtcs
MaxHandles == 2      \* pixel buffers / kernel framebuffers that can be live
MaxDescriptors == 3  \* descriptors the threads of the last section can hold

\* ------------------------------------------------------- program constants
OUTPUT_PRIMARY == 0
OUTPUT_EXTERNAL == 1
OUTPUT_MAX == 2
InvalidIndex == -1
FdUnset == 0
FdError == -1
DrmFdValue == 3

Outputs == 0 .. (OUTPUT_MAX - 1)

\* IDisplayDevice device identifiers, and one that getOutputIndex rejects
DEVICE_PRIMARY == "DEVICE_PRIMARY"
DEVICE_EXTERNAL == "DEVICE_EXTERNAL"
DEVICE_OTHER == "DEVICE_99"
Devices == {DEVICE_PRIMARY, DEVICE_EXTERNAL, DEVICE_OTHER}

getOutputIndex(device) ==
    CASE device = DEVICE_PRIMARY -> OUTPUT_PRIMARY
      [] device = DEVICE_EXTERNAL -> OUTPUT_EXTERNAL
      [] OTHER -> InvalidIndex

\* DrmConfig lookups (connector and encoder type expected for a device)
getDrmConnector(device) ==
    IF device = DEVICE_PRIMARY THEN "MIPI" ELSE "HDMI"

getDrmEncoder(device) ==
    IF device = DEVICE_PRIMARY THEN "ENC_MIPI" ELSE "ENC_TMDS"

\* ------------------------------------------------------------------ modes
\* drmModeModeInfo: the fields the code reads.  flags is the bit set;
\* preferred is (type & DRM_MODE_TYPE_PREFERRED).
ZeroMode ==
    [hdisplay |-> 0, vdisplay |-> 0, vrefresh |-> 0, flags |-> {}, preferred |-> FALSE]

Mode1080 ==
    [hdisplay |-> 1920, vdisplay |-> 1080, vrefresh |-> 60, flags |-> {}, preferred |-> FALSE]

Mode1080i ==
    [hdisplay |-> 1920, vdisplay |-> 1080, vrefresh |-> 60, flags |-> {"INTERLACE"}, preferred |-> FALSE]

Mode720 ==
    [hdisplay |-> 1280, vdisplay |-> 720, vrefresh |-> 30, flags |-> {}, preferred |-> FALSE]

BaseModes == {Mode1080, Mode1080i, Mode720}

ModeEntries == {[m EXCEPT !.preferred = p] : m \in BaseModes, p \in BOOLEAN}

\* a connector's mode list: at most MaxModes entries, no mode listed twice
Distinct(l) ==
    \A i, j \in 1 .. Len(l) :
        i # j => [l[i] EXCEPT !.preferred = FALSE] # [l[j] EXCEPT !.preferred = FALSE]

ModeListsUpTo(n) == {l \in UNION {[1 .. k -> ModeEntries] : k \in 0 .. n} : Distinct(l)}

\* the lists a connector of the given type reports
ModeLists(ctype) == ModeListsUpTo(IF ctype = "MIPI" THEN MaxPanelModes ELSE MaxModes)

isSameDrmModeSymmetric(value, base) ==
    /\ base.hdisplay = value.hdisplay
    /\ base.vdisplay = value.vdisplay
    /\ base.vrefresh = value.vrefresh
    /\ base.flags = value.flags

isSameDrmMode(value, base) ==
    /\ base.hdisplay = value.hdisplay
    /\ base.vdisplay = value.vdisplay
    /\ base.vrefresh = value.vrefresh
    /\ (base.flags \cap value.flags) = value.flags

\* ----------------------------------------------------------------- state
VARIABLES
    mInitialized,   \* Drm::mInitialized
    mDrmFd,         \* Drm::mDrmFd
    mOutputs,       \* Drm::mOutputs[OUTPUT_MAX]
    liveFb,         \* kernel framebuffer ids added and not removed
    liveHandles,    \* pixel buffers allocated and not freed
    liveDesc,       \* libdrm descriptors fetched and not freed
    fdOpen,         \* the device node is open
    badFree,        \* a descriptor, framebuffer or buffer was freed twice
    display,        \* kernel: the mode list the connector of each type reports
    scope,          \* the devices the composer drives in this run
    chain,          \* history of the EXTERNAL slot since its last detect
    last,           \* the last call: method, device, result, branch, request, what it met,
                    \* and its kernel, allocator and device-node calls
    mLock,          \* Drm::mLock: the thread that holds it
    threads         \* per thread: the method it is in, the step it is at, its locals

vars == <<mInitialized, mDrmFd, mOutputs, liveFb, liveHandles, liveDesc,
          fdOpen, badFree, display, scope, chain, last, mLock, threads>>

NullConnector == [ptr |-> 0, modes |-> <<>>]

\* DrmOutput after memset(0)
ZeroOutput ==
    [connected |-> FALSE, connector |-> NullConnector, encoder |-> 0, crtc |-> 0,
     mode |-> ZeroMode, fbId |-> 0, fbHandle |-> 0]

\* the smallest id the heap, the kernel or the allocator is not using
Fresh(used) == CHOOSE n \in 1 .. (Cardinality(used) + 1) :
                  n \notin used /\ \A m \in 1 .. (n - 1) : m \in used

\* The world a method body works on: the output table, the resources
\* outside the object and the kernel calls made so far.
World ==
    [outs |-> mOutputs, fb |-> liveFb, handles |-> liveHandles, desc |-> liveDesc,
     bad |-> badFree, ev |-> <<>>]

\* ---------------------------------------------------------- resetOutput
FreeDesc(w, ptr, tag) ==
    [w EXCEPT !.desc = @ \ {ptr}, !.bad = @ \/ ptr \notin w.desc]

RmFB(w, id) ==
    [w EXCEPT !.fb = @ \ {id}, !.bad = @ \/ id \notin w.fb,
              !.ev = Append(@, "rmFB")]

FreeFrameBuffer(w, h) ==
    [w EXCEPT !.handles = @ \ {h}, !.bad = @ \/ h \notin w.handles,
              !.ev = Append(@, "freeFrameBuffer")]

resetOutputKeepFb(w, index) ==
    LET o == w.outs[index]
        w1 == IF o.connector.ptr # 0 THEN FreeDesc(w, o.connector.ptr, "freeConnector") ELSE w
        w2 == IF o.encoder # 0 THEN FreeDesc(w1, o.encoder, "freeEncoder") ELSE w1
        w3 == IF o.crtc # 0 THEN FreeDesc(w2, o.crtc, "freeCrtc") ELSE w2
    IN [w3 EXCEPT !.outs[index] = [ZeroOutput EXCEPT !.fbId = o.fbId, !.fbHandle = o.fbHandle]]

resetOutputLeakEncoder(w, index) ==
    LET o == w.outs[index]
        w1 == IF o.connector.ptr # 0 THEN FreeDesc(w, o.connector.ptr, "freeConnector") ELSE w
        w3 == IF o.crtc # 0 THEN FreeDesc(w1, o.crtc, "freeCrtc") ELSE w1
        w4 == IF o.fbId # 0 THEN RmFB(w3, o.fbId) ELSE w3
        w5 == IF o.fbHandle # 0 THEN FreeFrameBuffer(w4, o.fbHandle) ELSE w4
    IN [w5 EXCEPT !.outs[index] = ZeroOutput]

resetOutput(w, index) ==
    LET o == w.outs[index]
        w1 == IF o.connector.ptr # 0 THEN FreeDesc(w, o.connector.ptr, "freeConnector") ELSE w
        w2 == IF o.encoder # 0 THEN FreeDesc(w1, o.encoder, "freeEncoder") ELSE w1
        w3 == IF o.crtc # 0 THEN FreeDesc(w2, o.crtc, "freeCrtc") ELSE w2
        w4 == IF o.fbId # 0 THEN RmFB(w3, o.fbId) ELSE w3
        w5 == IF o.fbHandle # 0 THEN FreeFrameBuffer(w4, o.fbHandle) ELSE w4
    IN [w5 EXCEPT !.outs[index] = ZeroOutput]

\* ------------------------------------------- setDrmMode(int, drmModeModeInfoPtr)
\* outcome is what the allocator and the kernel answer: "ok", "allocFail"
\* (allocFrameBuffer returns 0), "addFail" (drmModeAddFB fails) or
\* "crtcFail" (drmModeSetCrtc fails).  The result is [w, ret, path].
CommitOutcomes == {"ok", "allocFail", "addFail", "crtcFail"}

setDrmModeCommitKeepOld(w, index, mode, outcome) ==
    LET o == w.outs[index]
        oldFbId == o.fbId
        oldFbHandle == o.fbHandle
        h == Fresh(w.handles)
        id == Fresh(w.fb)
        cleared == [o EXCEPT !.fbId = 0, !.fbHandle = 0]
    IN IF isSameDrmMode(mode, o.mode)
       THEN [w |-> w, ret |-> TRUE, path |-> "same"]
       ELSE IF outcome = "allocFail" \/ Cardinality(w.handles) >= MaxHandles
       THEN [w |-> [w EXCEPT !.outs[index] = cleared,
                             !.ev = Append(@, "allocFrameBuffer")],
             ret |-> FALSE, path |-> "allocFail"]
       ELSE IF outcome = "addFail"
       THEN [w |-> [w EXCEPT !.outs[index] = [cleared EXCEPT !.fbHandle = h],
                             !.handles = @ \cup {h},
                             !.ev = @ \o <<"allocFrameBuffer", "addFB">>],
             ret |-> FALSE, path |-> "addFail"]
       ELSE LET bound == [w EXCEPT
                            !.outs[index] =
                                [cleared EXCEPT !.fbHandle = h, !.fbId = id,
                                                !.mode = IF outcome = "ok" THEN mode ELSE @],
                            !.handles = @ \cup {h},
                            !.fb = @ \cup {id},
                            !.ev = @ \o <<"allocFrameBuffer", "addFB", "setCrtc">>]
            IN [w |-> bound, ret |-> outcome = "ok",
                path |-> IF outcome = "ok" THEN "committed" ELSE "crtcFail"]

setDrmModeCommit(w, index, mode, outcome) ==
    LET o == w.outs[index]
        oldFbId == o.fbId
        oldFbHandle == o.fbHandle
        h == Fresh(w.handles)
        id == Fresh(w.fb)
        cleared == [o EXCEPT !.fbId = 0, !.fbHandle = 0]
        releaseOld(x) ==
            LET x1 == IF oldFbId # 0 THEN RmFB(x, oldFbId) ELSE x
            IN IF oldFbHandle # 0 THEN FreeFrameBuffer(x1, oldFbHandle) ELSE x1
    IN IF isSameDrmMode(mode, o.mode)
       THEN [w |-> w, ret |-> TRUE, path |-> "same"]
       ELSE IF outcome = "allocFail" \/ Cardinality(w.handles) >= MaxHandles
       THEN [w |-> [w EXCEPT !.outs[index] = cleared,
                             !.ev = Append(@, "allocFrameBuffer")],
             ret |-> FALSE, path |-> "allocFail"]
       ELSE IF outcome = "addFail"
       THEN [w |-> [w EXCEPT !.outs[index] = [cleared EXCEPT !.fbHandle = h],
                             !.handles = @ \cup {h},
                             !.ev = @ \o <<"allocFrameBuffer", "addFB">>],
             ret |-> FALSE, path |-> "addFail"]
       ELSE LET bound == [w EXCEPT
                            !.outs[index] =
                                [cleared EXCEPT !.fbHandle = h, !.fbId = id,
                                                !.mode = IF outcome = "ok" THEN mode ELSE @],
                            !.handles = @ \cup {h},
                            !.fb = @ \cup {id},
                            !.ev = @ \o <<"allocFrameBuffer", "addFB", "setCrtc">>]
            IN [w |-> releaseOld(bound), ret |-> outcome = "ok",
                path |-> IF outcome = "ok" THEN "committed" ELSE "crtcFail"]

\* ----------------------------------------------------------- mode choice
\* the loop of setDrmMode(int, drmModeModeInfo&): the index it leaves
RECURSIVE SetModeLoop(_, _, _, _)
SetModeLoop(modes, value, i, index) ==
    IF i > Len(modes) THEN index
    ELSE IF isSameDrmMode(value, modes[i]) THEN i
    ELSE SetModeLoop(modes, value, i + 1, IF modes[i].preferred THEN i ELSE index)

SetModeIndexPreferredFirst(modes, value) ==
    IF \E i \in 1 .. Len(modes) : modes[i].preferred
    THEN CHOOSE i \in 1 .. Len(modes) :
            modes[i].preferred /\ \A j \in 1 .. (i - 1) : ~modes[j].preferred
    ELSE SetModeLoop(modes, value, 1, 1)

\* 1-based position of the mode the loop selects (C index + 1)
SetModeIndex(modes, value) == SetModeLoop(modes, value, 1, 1)

\* the loop of initDrmMode: first preferred mode, else the first mode
RECURSIVE InitModeLoop(_, _)
InitModeLoop(modes, i) ==
    IF i > Len(modes) THEN 1
    ELSE IF modes[i].preferred THEN i
    ELSE InitModeLoop(modes, i + 1)

initDrmModeLastPreferred(w, index, outcome) ==
    LET modes == w.outs[index].connector.modes
    IN IF Len(modes) <= 0
       THEN [w |-> w, ret |-> FALSE, path |-> "noModes"]
       ELSE setDrmModeCommit(w, index, modes[SetModeLoop(modes, ZeroMode, 1, 1)], outcome)

initDrmMode(w, index, outcome) ==
    LET modes == w.outs[index].connector.modes
    IN IF Len(modes) <= 0
       THEN [w |-> w, ret |-> FALSE, path |-> "noModes"]
       ELSE setDrmModeCommit(w, index, modes[InitModeLoop(modes, 1)], outcome)

\* ------------------------------------------------- detect: topology walk
\* What the kernel reports.  An entry of a resource list is a hole (id 0),
\* an id the kernel fails to describe, or a descriptor; ids are the 1-based
\* positions in the list.
ConnectorTypes == {"MIPI", "HDMI"}
EncoderTypes == {"ENC_MIPI", "ENC_TMDS"}

ConnEntries ==
    {[kind |-> k, ctype |-> "none", connection |-> FALSE, encoder_id |-> 0] :
        k \in {"hole", "fail"}}
    \cup {[kind |-> "desc", ctype |-> t, connection |-> c, encoder_id |-> e] :
        t \in ConnectorTypes, c \in BOOLEAN, e \in 0 .. MaxEncoders}

EncEntries ==
    {[kind |-> k, etype |-> "none", crtc_id |-> 0] : k \in {"hole", "fail"}}
    \cup {[kind |-> "desc", etype |-> t, crtc_id |-> c] :
        t \in EncoderTypes, c \in 0 .. MaxCrtcs}

CrtcEntries ==
    {[kind |-> k, buffer_id |-> 0, mode_valid |-> FALSE, mode |-> ZeroMode] :
        k \in {"hole", "fail"}}
    \cup {[kind |-> "desc", buffer_id |-> b, mode_valid |-> FALSE, mode |-> ZeroMode] :
        b \in 0 .. 1}
    \cup {[kind |-> "desc", buffer_id |-> b, mode_valid |-> TRUE, mode |-> m] :
        b \in 0 .. 1, m \in BaseModes}

ConnLists == UNION {[1 .. k -> ConnEntries] : k \in 0 .. MaxConnectors}
EncLists == UNION {[1 .. k -> EncEntries] : k \in 0 .. MaxEncoders}
CrtcLists == UNION {[1 .. k -> CrtcEntries] : k \in 0 .. MaxCrtcs}

\* drmModeGetConnector/Encoder/Crtc by id: the entry, when it is a descriptor
Describable(list, id) == id \in 1 .. Len(list) /\ list[id].kind = "desc"

\* a scan loop counts the descriptors it holds: fetched by drmModeGet*,
\* not freed and not stored in the slot
Fetched(held) == held + 1
Freed(held) == held - 1

\* the connector loop (lines 109-134): [path, i, encoder_id, unfreed]; i is
\* the C index of the connector the loop stops at, unfreed the descriptors
\* the loop still holds when it ends.
RECURSIVE ConnScan(_, _, _, _)
ConnScan(device, conns, i, held) ==
    IF i >= Len(conns)
    THEN [path |-> "noConnector", i |-> i, encoder_id |-> 0, unfreed |-> held]
    ELSE LET c == conns[i + 1]
         IN IF c.kind # "desc" THEN ConnScan(device, conns, i + 1, held)
            ELSE IF c.ctype # getDrmConnector(device)
            THEN ConnScan(device, conns, i + 1, Freed(Fetched(held)))
            ELSE IF ~c.connection
            THEN [path |-> "disconnected", i |-> i, encoder_id |-> 0,
                  unfreed |-> Freed(Fetched(held))]
            ELSE \* output->connector takes the descriptor
                 [path |-> "connected", i |-> i, encoder_id |-> c.encoder_id,
                  unfreed |-> held]

\* the fallback encoder loop (lines 148-165).  It tests encoders[j] but
\* fetches encoders[i], i being the connector's index; past the end of the
\* array the id read is arbitrary: oob = 0 (an id the kernel rejects) or the
\* position of any encoder of the list.
EncoderFetched(encs, i, oob) ==
    IF i + 1 <= Len(encs) THEN i + 1 ELSE oob

RECURSIVE EncScan(_, _, _, _, _, _)
EncScan(device, encs, i, oob, j, held) ==
    IF j >= Len(encs) THEN [found |-> FALSE, crtc_id |-> 0, pos |-> 0, unfreed |-> held]
    ELSE IF encs[j + 1].kind = "hole" THEN EncScan(device, encs, i, oob, j + 1, held)
    ELSE LET id == EncoderFetched(encs, i, oob)
         IN IF ~Describable(encs, id) THEN EncScan(device, encs, i, oob, j + 1, held)
            ELSE IF encs[id].etype = getDrmEncoder(device)
            THEN \* output->encoder takes the descriptor
                 [found |-> TRUE, crtc_id |-> encs[id].crtc_id, pos |-> id,
                  unfreed |-> held]
            ELSE EncScan(device, encs, i, oob, j + 1, Freed(Fetched(held)))

\* resources->encoders as the kernel filled it: the position of the first
\* describable encoder of the type, 0 when the list holds none
FirstOfType(encs, etype) ==
    LET S == {k \in 1 .. Len(encs) : encs[k].kind = "desc" /\ encs[k].etype = etype}
    IN IF S = {} THEN 0 ELSE CHOOSE k \in S : \A m \in S : k <= m

\* lines 136-170: the attached encoder, else the scan.  scan tells that the
\* loop ran; pos is then the position of the encoder it stored and first
\* the position FirstOfType gives for the expected type.
EncResolve(device, encs, i, encoder_id, oob) ==
    IF encoder_id # 0 /\ Describable(encs, encoder_id)
    THEN [found |-> TRUE, crtc_id |-> encs[encoder_id].crtc_id, unfreed |-> 0,
          scan |-> FALSE, pos |-> 0, first |-> 0]
    ELSE LET r == EncScan(device, encs, i, oob, 0, 0)
         IN [found |-> r.found, crtc_id |-> r.crtc_id, unfreed |-> r.unfreed,
             scan |-> TRUE, pos |-> r.pos,
             first |-> FirstOfType(encs, getDrmEncoder(device))]

\* the spare-CRTC loop (lines 184-200)
RECURSIVE CrtcScan(_, _, _)
CrtcScan(crtcs, j, held) ==
    IF j >= Len(crtcs)
    THEN [found |-> FALSE, mode_valid |-> FALSE, mode |-> ZeroMode, unfreed |-> held]
    ELSE LET c == crtcs[j + 1]
         IN IF c.kind # "desc" THEN CrtcScan(crtcs, j + 1, held)
            ELSE IF c.buffer_id = 0
            THEN \* output->crtc takes the descriptor
                 [found |-> TRUE, mode_valid |-> c.mode_valid, mode |-> c.mode,
                  unfreed |-> held]
            ELSE CrtcScan(crtcs, j + 1, Freed(Fetched(held)))

\* lines 172-205: the attached CRTC, else a spare one
CrtcResolve(crtcs, crtc_id) ==
    IF crtc_id # 0 /\ Describable(crtcs, crtc_id)
    THEN [found |-> TRUE, mode_valid |-> crtcs[crtc_id].mode_valid,
          mode |-> crtcs[crtc_id].mode, unfreed |-> 0]
    ELSE CrtcScan(crtcs, 0, 0)

\* The walks of detect over the bounded kernel topologies, per device: how
\* far the walk gets, what the encoder scan met, whether the CRTC it
\* resolves carries a valid mode, and the descriptors its loops still hold.
ConnResults ==
    [d \in {DEVICE_PRIMARY, DEVICE_EXTERNAL} |->
        {ConnScan(d, conns, 0, 0) : conns \in ConnLists}]

EncResults ==
    [d \in {DEVICE_PRIMARY, DEVICE_EXTERNAL} |->
        [i \in 0 .. MaxConnectors |-> [eid \in 0 .. MaxEncoders |->
            {EncResolve(d, encs[1], i, eid, encs[2]) :
                encs \in {<<l, o>> \in EncLists \X (0 .. MaxEncoders) : o <= Len(l)}}]]]

CrtcResults ==
    [cid \in 0 .. MaxCrtcs |-> {CrtcResolve(crtcs, cid) : crtcs \in CrtcLists}]

Walk(path, mode, unfreed, scan, pos, first) ==
    [path |-> path, mode |-> mode, unfreed |-> unfreed, scan |-> scan, pos |-> pos,
     first |-> first]

Walks ==
    [d \in {DEVICE_PRIMARY, DEVICE_EXTERNAL} |->
        UNION {
            IF c.path # "connected"
            THEN {Walk(c.path, ZeroMode, c.unfreed, FALSE, 0, 0)}
            ELSE UNION {
                IF ~e.found
                THEN {Walk("noEncoder", ZeroMode, c.unfreed + e.unfreed,
                           e.scan, e.pos, e.first)}
                ELSE {Walk(IF ~x.found THEN "noCrtc"
                           ELSE IF x.mode_valid THEN "adopt" ELSE "init",
                           IF x.found /\ x.mode_valid THEN x.mode ELSE ZeroMode,
                           c.unfreed + e.unfreed + x.unfreed,
                           e.scan, e.pos, e.first) :
                        x \in CrtcResults[e.crtc_id]} :
                e \in EncResults[d][c.i][c.encoder_id]} :
            c \in ConnResults[d]}]

\* --------------------------------------------------------------- actions
NoRequest == ZeroMode

\* what a call met besides its result: nothing, the arguments of an ioctl
\* helper, or what the walk of detect saw in the kernel's lists
NoInfo == [kind |-> "none"]

IoctlInfo(data, size) == [kind |-> "ioctl", data |-> data, size |-> size]

WalkInfo(wk) ==
    [kind |-> "walk", crtcMode |-> wk.mode, scan |-> wk.scan, pos |-> wk.pos,
     first |-> wk.first]

\* between two calls
NoCall ==
    [op |-> "none", dev |-> "none", ret |-> TRUE, ev |-> <<>>, path |-> "none",
     req |-> NoRequest, sel |-> 0, info |-> NoInfo]

\* sel is the 1-based position of the mode a mode request selected, else 0
Call(op, device, ret, w, path, req, sel) ==
    [op |-> op, dev |-> device, ret |-> ret, ev |-> w.ev, path |-> path, req |-> req,
     sel |-> sel, info |-> NoInfo]

Commit(w) ==
    /\ mOutputs' = w.outs
    /\ liveFb' = w.fb
    /\ liveHandles' = w.handles
    /\ liveDesc' = w.desc
    /\ badFree' = w.bad

NoChain == [req |-> 0, sel |-> 0, handles |-> {}, fb |-> {}]

\* A run drives the built-in panel, the external display, or both; when it
\* drives both, the two displays are fixed ones.
PanelOnly == {DEVICE_PRIMARY, DEVICE_OTHER}
ExternalOnly == {DEVICE_EXTERNAL, DEVICE_OTHER}
BothDisplays == Devices
Scopes == {PanelOnly, ExternalOnly, BothDisplays}

FixedDisplays ==
    [t \in ConnectorTypes |->
        IF t = "MIPI" THEN <<[Mode1080 EXCEPT !.preferred = TRUE]>>
        ELSE <<Mode1080i, [Mode1080 EXCEPT !.preferred = TRUE]>>]

\* the threads that call into the object
Threads == {"composer", "observer"}

NoThread == "none"

NoWalk == [path |-> "none", mode |-> ZeroMode]

\* a thread outside the object
IdleThread ==
    [pc |-> "idle", op |-> "none", dev |-> "none", wk |-> NoWalk,
     mode |-> ZeroMode, oldFbId |-> 0, oldFbHandle |-> 0, ret |-> FALSE, i |-> 0]

Init ==
    /\ mInitialized = FALSE
    /\ mDrmFd = FdUnset
    /\ mOutputs = [i \in Outputs |-> ZeroOutput]
    /\ liveFb = {}
    /\ liveHandles = {}
    /\ liveDesc = {}
    /\ fdOpen = FALSE
    /\ badFree = FALSE
    /\ scope \in Scopes
    /\ display = IF scope = BothDisplays THEN FixedDisplays
                 ELSE [t \in ConnectorTypes |-> <<>>]
    /\ chain = NoChain
    /\ last = NoCall
    /\ mLock = NoThread
    /\ threads = [t \in Threads |-> IdleThread]

InitializeReopen ==
    \E opened \in BOOLEAN :
        /\ mDrmFd' = IF opened THEN DrmFdValue ELSE FdError
        /\ fdOpen' = opened
        /\ mInitialized' = (mInitialized \/ opened)
        /\ mOutputs' = IF opened THEN [i \in Outputs |-> ZeroOutput] ELSE mOutputs
        /\ chain' = NoChain
        /\ last' = [op |-> "initialize", dev |-> "none", ret |-> opened,
                    ev |-> <<"open">>, path |-> IF opened THEN "opened" ELSE "openFail",
                    req |-> NoRequest, sel |-> 0, info |-> NoInfo]
        /\ UNCHANGED <<liveFb, liveHandles, liveDesc, badFree, display, scope>>

Initialize ==
    IF mInitialized
    THEN /\ last' = [op |-> "initialize", dev |-> "none", ret |-> TRUE, ev |-> <<>>,
                     path |-> "already", req |-> NoRequest, sel |-> 0, info |-> NoInfo]
         /\ chain' = NoChain
         /\ UNCHANGED <<mInitialized, mDrmFd, mOutputs, liveFb, liveHandles,
                        liveDesc, fdOpen, badFree, display, scope>>
    ELSE \E opened \in BOOLEAN :
            /\ mDrmFd' = IF opened THEN DrmFdValue ELSE FdError
            /\ fdOpen' = opened
            /\ mInitialized' = opened
            /\ mOutputs' = IF opened THEN [i \in Outputs |-> ZeroOutput] ELSE mOutputs
            /\ chain' = NoChain
            /\ last' = [op |-> "initialize", dev |-> "none", ret |-> opened,
                        ev |-> <<"open">>, path |-> IF opened THEN "opened" ELSE "openFail",
                        req |-> NoRequest, sel |-> 0, info |-> NoInfo]
            /\ UNCHANGED <<liveFb, liveHandles, liveDesc, badFree, display, scope>>

RECURSIVE ResetAll(_, _)
ResetAll(w, i) ==
    IF i >= OUTPUT_MAX THEN w ELSE ResetAll(resetOutput(w, i), i + 1)

DeinitializeKeepOutputs ==
    /\ mDrmFd' = FdUnset
    /\ fdOpen' = FALSE
    /\ mInitialized' = FALSE
    /\ chain' = NoChain
    /\ last' = [op |-> "deinitialize", dev |-> "none", ret |-> TRUE,
                ev |-> IF mDrmFd # FdUnset THEN <<"close">> ELSE <<>>,
                path |-> "none", req |-> NoRequest, sel |-> 0, info |-> NoInfo]
    /\ UNCHANGED <<mOutputs, liveFb, liveHandles, liveDesc, badFree, display, scope>>

Deinitialize ==
    LET w == ResetAll(World, 0)
        closes == mDrmFd # FdUnset
        w1 == IF closes THEN [w EXCEPT !.ev = Append(@, "close")] ELSE w
    IN /\ Commit(w1)
       /\ mDrmFd' = FdUnset
       /\ fdOpen' = FALSE
       /\ mInitialized' = FALSE
       /\ chain' = NoChain
       /\ last' = Call("deinitialize", "none", TRUE, w1, "none", NoRequest, 0)
       /\ UNCHANGED <<display, scope>>

\* chain.req / chain.sel: 0 = no detect(EXTERNAL) heads the history, 1 = the
\* last call was a successful detect(EXTERNAL) that found the display,
\* 2 = that detect was followed only by successful setMode calls, each
\* requesting (req) or selecting (sel) a mode not equivalent to the then
\* current one.  chain.handles and chain.fb are the pixel buffers and kernel
\* framebuffers that were live when that detect had reset the slot.
ChainAfterDetect(device, ret, w0, w) ==
    IF device = DEVICE_EXTERNAL /\ ret /\ w.outs[OUTPUT_EXTERNAL].connected
    THEN [req |-> 1, sel |-> 1, handles |-> w0.handles, fb |-> w0.fb] ELSE NoChain

\* the two modes differ in resolution or refresh, or the first has a flag
\* the second lacks
NotEquivalent(value, base) ==
    \/ value.hdisplay # base.hdisplay
    \/ value.vdisplay # base.vdisplay
    \/ value.vrefresh # base.vrefresh
    \/ ~(value.flags \subseteq base.flags)

ChainAfterSetMode(r, value, current) ==
    IF ~r.ret THEN NoChain
    ELSE [chain EXCEPT
            !.req = IF @ >= 1 /\ NotEquivalent(value, current) THEN 2 ELSE 0,
            !.sel = IF @ >= 1 /\ r.path = "committed" THEN 2 ELSE 0]

DetectWalkLenient(w0, device, wk, modes, outcome) ==
    LET index == getOutputIndex(device)
        cptr == Fresh(w0.desc)
        eptr == Fresh(w0.desc \cup {cptr})
        xptr == Fresh(w0.desc \cup {cptr, eptr})
        withConn == [w0 EXCEPT !.outs[index].connector = [ptr |-> cptr, modes |-> modes],
                               !.outs[index].connected = TRUE,
                               !.desc = @ \cup {cptr}]
        withEnc == [withConn EXCEPT !.outs[index].encoder = eptr, !.desc = @ \cup {eptr}]
        withCrtc == [withEnc EXCEPT !.outs[index].crtc = xptr, !.desc = @ \cup {xptr}]
        init == initDrmMode(withCrtc, index, outcome)
        r == CASE wk.path = "noConnector" -> [w |-> w0, ret |-> FALSE, path |-> wk.path]
               [] wk.path = "disconnected" -> [w |-> w0, ret |-> TRUE, path |-> wk.path]
               [] wk.path = "noEncoder" -> [w |-> withConn, ret |-> FALSE, path |-> wk.path]
               [] wk.path = "noCrtc" -> [w |-> withEnc, ret |-> FALSE, path |-> wk.path]
               [] wk.path = "adopt" ->
                    [w |-> [withCrtc EXCEPT !.outs[index].mode = wk.mode],
                     ret |-> TRUE, path |-> wk.path]
               [] OTHER -> [w |-> init.w, ret |-> init.ret, path |-> "init:" \o init.path]
        disabled == index # OUTPUT_PRIMARY
        final == IF ~r.ret THEN resetOutput(r.w, index) ELSE r.w
    IN [w |-> final,
        ret |-> IF ~r.ret THEN disabled ELSE TRUE,
        path |-> r.path]

DetectWalkNoReset(w0, device, wk, modes, outcome) ==
    LET index == getOutputIndex(device)
        cptr == Fresh(w0.desc)
        eptr == Fresh(w0.desc \cup {cptr})
        xptr == Fresh(w0.desc \cup {cptr, eptr})
        withConn == [w0 EXCEPT !.outs[index].connector = [ptr |-> cptr, modes |-> modes],
                               !.outs[index].connected = TRUE,
                               !.desc = @ \cup {cptr}]
        withEnc == [withConn EXCEPT !.outs[index].encoder = eptr, !.desc = @ \cup {eptr}]
        withCrtc == [withEnc EXCEPT !.outs[index].crtc = xptr, !.desc = @ \cup {xptr}]
        init == initDrmMode(withCrtc, index, outcome)
        r == CASE wk.path = "noConnector" -> [w |-> w0, ret |-> FALSE, path |-> wk.path]
               [] wk.path = "disconnected" -> [w |-> w0, ret |-> TRUE, path |-> wk.path]
               [] wk.path = "noEncoder" -> [w |-> withConn, ret |-> FALSE, path |-> wk.path]
               [] wk.path = "noCrtc" -> [w |-> withEnc, ret |-> FALSE, path |-> wk.path]
               [] wk.path = "adopt" ->
                    [w |-> [withCrtc EXCEPT !.outs[index].mode = wk.mode],
                     ret |-> TRUE, path |-> wk.path]
               [] OTHER -> [w |-> init.w, ret |-> init.ret, path |-> "init:" \o init.path]
        disabled == r.w.outs[index].connector.ptr = 0 /\ index # OUTPUT_PRIMARY
        final == r.w
    IN [w |-> final,
        ret |-> IF ~r.ret THEN disabled ELSE TRUE,
        path |-> r.path]

DetectWalkRemode(w0, device, wk, modes, outcome) ==
    LET index == getOutputIndex(device)
        cptr == Fresh(w0.desc)
        eptr == Fresh(w0.desc \cup {cptr})
        xptr == Fresh(w0.desc \cup {cptr, eptr})
        withConn == [w0 EXCEPT !.outs[index].connector = [ptr |-> cptr, modes |-> modes],
                               !.outs[index].connected = TRUE,
                               !.desc = @ \cup {cptr}]
        withEnc == [withConn EXCEPT !.outs[index].encoder = eptr, !.desc = @ \cup {eptr}]
        withCrtc == [withEnc EXCEPT !.outs[index].crtc = xptr, !.desc = @ \cup {xptr}]
        init == initDrmMode(withCrtc, index, outcome)
        r == CASE wk.path = "noConnector" -> [w |-> w0, ret |-> FALSE, path |-> wk.path]
               [] wk.path = "disconnected" -> [w |-> w0, ret |-> TRUE, path |-> wk.path]
               [] wk.path = "noEncoder" -> [w |-> withConn, ret |-> FALSE, path |-> wk.path]
               [] wk.path = "noCrtc" -> [w |-> withEnc, ret |-> FALSE, path |-> wk.path]
               [] OTHER -> [w |-> init.w, ret |-> init.ret, path |-> "init:" \o init.path]
        disabled == r.w.outs[index].connector.ptr = 0 /\ index # OUTPUT_PRIMARY
        final == IF ~r.ret THEN resetOutput(r.w, index) ELSE r.w
    IN [w |-> final,
        ret |-> IF ~r.ret THEN disabled ELSE TRUE,
        path |-> r.path]

\* the body of detect after the resource list was fetched (lines 104-233)
DetectWalk(w0, device, wk, modes, outcome) ==
    LET index == getOutputIndex(device)
        cptr == Fresh(w0.desc)
        eptr == Fresh(w0.desc \cup {cptr})
        xptr == Fresh(w0.desc \cup {cptr, eptr})
        withConn == [w0 EXCEPT !.outs[index].connector = [ptr |-> cptr, modes |-> modes],
                               !.outs[index].connected = TRUE,
                               !.desc = @ \cup {cptr}]
        withEnc == [withConn EXCEPT !.outs[index].encoder = eptr, !.desc = @ \cup {eptr}]
        withCrtc == [withEnc EXCEPT !.outs[index].crtc = xptr, !.desc = @ \cup {xptr}]
        init == initDrmMode(withCrtc, index, outcome)
        r == CASE wk.path = "noConnector" -> [w |-> w0, ret |-> FALSE, path |-> wk.path]
               [] wk.path = "disconnected" -> [w |-> w0, ret |-> TRUE, path |-> wk.path]
               [] wk.path = "noEncoder" -> [w |-> withConn, ret |-> FALSE, path |-> wk.path]
               [] wk.path = "noCrtc" -> [w |-> withEnc, ret |-> FALSE, path |-> wk.path]
               [] wk.path = "adopt" ->
                    [w |-> [withCrtc EXCEPT !.outs[index].mode = wk.mode],
                     ret |-> TRUE, path |-> wk.path]
               [] OTHER -> [w |-> init.w, ret |-> init.ret, path |-> "init:" \o init.path]
        disabled == r.w.outs[index].connector.ptr = 0 /\ index # OUTPUT_PRIMARY
        final == IF ~r.ret THEN resetOutput(r.w, index) ELSE r.w
    IN [w |-> final,
        ret |-> IF ~r.ret THEN disabled ELSE TRUE,
        path |-> r.path]

\* drmModeGetResources (line 98) and drmModeFreeResources (line 231)
GetResources(w) == [w EXCEPT !.ev = Append(@, "getResources")]

FreeResources(r) == [r EXCEPT !.w.ev = Append(@, "freeResources")]

\* the descriptors the loops of the walk fetched and still hold stay allocated
RECURSIVE Unfreed(_, _)
Unfreed(w, n) ==
    IF n <= 0 THEN w ELSE Unfreed([w EXCEPT !.desc = @ \cup {Fresh(@)}], n - 1)

DetectDone(device, w0, r, info) ==
    /\ Commit(r.w)
    /\ chain' = ChainAfterDetect(device, r.ret, w0, r.w)
    /\ last' = [Call("detect", device, r.ret, r.w, r.path, NoRequest, 0)
                    EXCEPT !.info = info]
    /\ UNCHANGED <<mInitialized, mDrmFd, fdOpen, display, scope>>

Rejected(op, device, path, req) ==
    /\ last' = [op |-> op, dev |-> device, ret |-> FALSE, ev |-> <<>>, path |-> path,
                req |-> req, sel |-> 0, info |-> NoInfo]
    /\ chain' = NoChain
    /\ UNCHANGED <<mInitialized, mDrmFd, mOutputs, liveFb, liveHandles, liveDesc,
                   fdOpen, badFree, display, scope>>

Detect(device) ==
    IF ~mInitialized THEN Rejected("detect", device, "notInit", NoRequest)
    ELSE IF getOutputIndex(device) < 0
    THEN Rejected("detect", device, "invalidDevice", NoRequest)
    ELSE LET w0 == GetResources(resetOutput(World, getOutputIndex(device)))
         IN \/ DetectDone(device, w0, [w |-> w0, ret |-> FALSE, path |-> "noResources"],
                          NoInfo)
            \/ \E wk \in Walks[device] :
                 \E outcome \in (IF wk.path = "init" /\ Len(display[getDrmConnector(device)]) > 0
                                 THEN CommitOutcomes ELSE {"ok"}) :
                   DetectDone(device, w0,
                              FreeResources(DetectWalk(Unfreed(w0, wk.unfreed), device, wk,
                                                       display[getDrmConnector(device)],
                                                       outcome)),
                              WalkInfo(wk))

ModeEntryRejectAnySlot(device) ==
    IF ~mInitialized THEN "notInit"
    ELSE IF getOutputIndex(device) < 0 THEN "invalidDevice"
    ELSE IF ~mOutputs[getOutputIndex(device)].connected THEN "notConnected"
    ELSE IF Len(mOutputs[getOutputIndex(device)].connector.modes) <= 0 THEN "noModes"
    ELSE "none"

\* the checks the two mode entry points share (lines 251-274, 295-318)
ModeEntryReject(device) ==
    IF ~mInitialized THEN "notInit"
    ELSE IF device # DEVICE_EXTERNAL THEN "invalidDevice"
    ELSE IF getOutputIndex(device) < 0 THEN "invalidDevice"
    ELSE IF ~mOutputs[getOutputIndex(device)].connected THEN "notConnected"
    ELSE IF Len(mOutputs[getOutputIndex(device)].connector.modes) <= 0 THEN "noModes"
    ELSE "none"

ModeDone(op, device, r, req, sel, ch) ==
    /\ Commit(r.w)
    /\ chain' = ch
    /\ last' = Call(op, device, r.ret, r.w, r.path, req, sel)
    /\ UNCHANGED <<mInitialized, mDrmFd, fdOpen, display, scope>>

\* setDrmMode(int device, drmModeModeInfo& value)
SetMode(device, value) ==
    IF ModeEntryReject(device) # "none"
    THEN Rejected("setMode", device, ModeEntryReject(device), value)
    ELSE LET index == getOutputIndex(device)
             modes == mOutputs[index].connector.modes
             sel == SetModeIndex(modes, value)
             mode == modes[sel]
         IN \E outcome \in (IF isSameDrmMode(mode, mOutputs[index].mode)
                            THEN {"ok"} ELSE CommitOutcomes) :
              LET r == setDrmModeCommit(World, index, mode, outcome)
              IN ModeDone("setMode", device, r, value, sel,
                          ChainAfterSetMode(r, value, mOutputs[index].mode))

\* the loop of setRefreshRate (lines 320-333)
RECURSIVE RefreshLoop(_, _, _, _, _)
RefreshLoop(modes, current, hz, i, index) ==
    IF i > Len(modes) THEN index
    ELSE IF /\ modes[i].hdisplay = current.hdisplay
            /\ modes[i].vdisplay = current.vdisplay
            /\ modes[i].vrefresh = hz
         THEN i
    ELSE RefreshLoop(modes, current, hz, i + 1, IF modes[i].preferred THEN i ELSE index)

RefreshRates == {30, 60}

RateRequest(hz) == [ZeroMode EXCEPT !.vrefresh = hz]

SetRefreshRate(device, hz) ==
    IF ModeEntryReject(device) # "none"
    THEN Rejected("setRefreshRate", device, ModeEntryReject(device), RateRequest(hz))
    ELSE LET index == getOutputIndex(device)
             modes == mOutputs[index].connector.modes
             sel == RefreshLoop(modes, mOutputs[index].mode, hz, 1, 1)
             mode == modes[sel]
         IN \E outcome \in (IF isSameDrmMode(mode, mOutputs[index].mode)
                            THEN {"ok"} ELSE CommitOutcomes) :
              ModeDone("setRefreshRate", device,
                       setDrmModeCommit(World, index, mode, outcome),
                       RateRequest(hz), sel, NoChain)

\* ---------------------------------------------------------------- queries
Query(op, device, ret, path) ==
    /\ last' = [op |-> op, dev |-> device, ret |-> ret, ev |-> <<>>, path |-> path,
                req |-> NoRequest, sel |-> 0, info |-> NoInfo]
    /\ chain' = NoChain
    /\ UNCHANGED <<mInitialized, mDrmFd, mOutputs, liveFb, liveHandles, liveDesc,
                   fdOpen, badFree, display, scope>>

GetModeInfo(device) ==
    LET index == getOutputIndex(device)
    IN IF index < 0 THEN Query("getModeInfo", device, FALSE, "invalidDevice")
       ELSE IF ~mOutputs[index].connected
       THEN Query("getModeInfo", device, FALSE, "notConnected")
       ELSE IF mOutputs[index].mode.hdisplay = 0 \/ mOutputs[index].mode.vdisplay = 0
       THEN Query("getModeInfo", device, FALSE, "noMode")
       ELSE Query("getModeInfo", device, TRUE, "none")

GetPhysicalSize(device) ==
    LET index == getOutputIndex(device)
    IN IF index < 0 THEN Query("getPhysicalSize", device, FALSE, "invalidDevice")
       ELSE IF ~mOutputs[index].connected
       THEN Query("getPhysicalSize", device, FALSE, "notConnected")
       ELSE Query("getPhysicalSize", device, TRUE, "none")

IsConnected(device) ==
    LET index == getOutputIndex(device)
    IN IF index < 0 THEN Query("isConnected", device, FALSE, "invalidDevice")
       ELSE Query("isConnected", device, mOutputs[index].connected, "none")

\* ---------------------------------------------------------- ioctl helpers
PayloadSizes == {0, 8}

IoctlNoFdCheck(op, data, size, err) ==
    LET path == IF ~data \/ size = 0 THEN "invalidArgs"
                ELSE IF err THEN "ioctlFail" ELSE "none"
    IN /\ last' = [op |-> op, dev |-> "none", ret |-> path = "none",
                   ev |-> IF path = "invalidArgs" THEN <<>> ELSE <<"drmCommand">>,
                   path |-> path, req |-> NoRequest, sel |-> 0,
                   info |-> IoctlInfo(data, size)]
       /\ chain' = NoChain
       /\ UNCHANGED <<mInitialized, mDrmFd, mOutputs, liveFb, liveHandles, liveDesc,
                      fdOpen, badFree, display, scope>>

\* the body writeReadIoctl and writeIoctl share: data tells that the payload
\* pointer is not null, err that the kernel call fails
Ioctl(op, data, size, err) ==
    LET path == IF mDrmFd <= 0 THEN "notInit"
                ELSE IF ~data \/ size = 0 THEN "invalidArgs"
                ELSE IF err THEN "ioctlFail" ELSE "none"
    IN /\ last' = [op |-> op, dev |-> "none", ret |-> path = "none",
                   ev |-> IF path \in {"notInit", "invalidArgs"} THEN <<>>
                          ELSE <<"drmCommand">>,
                   path |-> path, req |-> NoRequest, sel |-> 0,
                   info |-> IoctlInfo(data, size)]
       /\ chain' = NoChain
       /\ UNCHANGED <<mInitialized, mDrmFd, mOutputs, liveFb, liveHandles, liveDesc,
                      fdOpen, badFree, display, scope>>

WriteReadIoctl(data, size, err) == Ioctl("writeReadIoctl", data, size, err)

WriteIoctl(data, size, err) == Ioctl("writeIoctl", data, size, err)

\* ------------------------------------------------------------ environment
\* The display behind a connector is exchanged while the slot holds no
\* connector for it: a hot-plug event makes the composer run detect, which
\* drops the connector of the display that left.
SlotOf(ctype) == IF ctype = "MIPI" THEN OUTPUT_PRIMARY ELSE OUTPUT_EXTERNAL

Hotplug(ctype, modes) ==
    /\ scope # BothDisplays
    /\ \E device \in scope : getOutputIndex(device) = SlotOf(ctype)
    /\ ~mOutputs[SlotOf(ctype)].connected
    /\ display[ctype] # modes
    /\ display' = [display EXCEPT ![ctype] = modes]
    /\ UNCHANGED <<mInitialized, mDrmFd, mOutputs, liveFb, liveHandles, liveDesc,
                   fdOpen, badFree, scope, chain, last>>

\* the caller takes the result of the call
Return ==
    /\ last # NoCall
    /\ last' = NoCall
    /\ UNCHANGED <<mInitialized, mDrmFd, mOutputs, liveFb, liveHandles, liveDesc,
                   fdOpen, badFree, display, scope, chain>>

Idle == last = NoCall

\* one caller: no call overlaps another, and the lock a call takes is free
\* again when it returns
Serial == UNCHANGED <<mLock, threads>>

Next ==
    \/ Idle /\ Serial /\ Initialize
    \/ Idle /\ Serial /\ Deinitialize
    \/ Idle /\ Serial /\ \E device \in scope : Detect(device)
    \/ Idle /\ Serial /\ \E device \in scope, value \in BaseModes : SetMode(device, value)
    \/ Idle /\ Serial /\ \E device \in scope, hz \in RefreshRates : SetRefreshRate(device, hz)
    \/ Idle /\ Serial /\ \E device \in scope : GetModeInfo(device)
    \/ Idle /\ Serial /\ \E device \in scope : GetPhysicalSize(device)
    \/ Idle /\ Serial /\ \E device \in scope : IsConnected(device)
    \/ Idle /\ Serial /\ \E data, err \in BOOLEAN, size \in PayloadSizes : WriteReadIoctl(data, size, err)
    \/ Idle /\ Serial /\ \E data, err \in BOOLEAN, size \in PayloadSizes : WriteIoctl(data, size, err)
    \/ Idle /\ Serial /\ \E ctype \in ConnectorTypes : \E modes \in ModeLists(ctype) : Hotplug(ctype, modes)
    \/ Return /\ Serial

Spec == Init /\ [][Next]_vars

\* ---------------------------------------------------------------- threads
\* The same object called from two threads.  A call is a sequence of steps,
\* each reading or writing the object once; the steps of the two threads
\* interleave.  detect, the mode requests and the queries hold mLock from
\* their Mutex::Autolock to their return; initialize and deinitialize take
\* no lock.  The results of the calls are not kept.  The threads drive the
\* external display; the mode or rate a thread asks for is drawn where the
\* method first reads it.
LockedOps ==
    {"detect", "setMode", "setRefreshRate", "getModeInfo", "getPhysicalSize",
     "isConnected"}

\* the methods that start with RETURN_FALSE_IF_NOT_INIT
GuardedOps == {"detect", "setMode", "setRefreshRate"}

CommitOps == {"detect", "setMode", "setRefreshRate"}

Requests(op) ==
    CASE op = "setMode" -> BaseModes
      [] op = "setRefreshRate" -> {RateRequest(hz) : hz \in RefreshRates}
      [] OTHER -> {ZeroMode}

DevicesOf(op) == IF op \in LockedOps THEN {DEVICE_EXTERNAL} ELSE {"none"}

\* the first step of a method
Entry(op) ==
    CASE op \in GuardedOps -> "checkInit"
      [] op \in LockedOps -> "lock"
      [] op = "deinitialize" -> "reset"
      [] OTHER -> "open"

\* where the mode commit returns to
AfterCommit(op) == IF op = "detect" THEN "finish" ELSE "unlock"

At(t, pc, ops) == threads[t].pc = pc /\ threads[t].op \in ops

Goto(t, th) == threads' = [threads EXCEPT ![t] = th]

Step(t, pc) == Goto(t, [threads[t] EXCEPT !.pc = pc])

SlotOfThread(t) == getOutputIndex(threads[t].dev)

\* the connector field of the slot points to a descriptor that is allocated
Allocated(index) == mOutputs[index].connector.ptr \in liveDesc

Untouched == UNCHANGED <<mOutputs, liveFb, liveHandles, liveDesc, badFree>>

Lifecycle == UNCHANGED <<mInitialized, mDrmFd, fdOpen>>

Caller == UNCHANGED <<display, scope, chain, last>>

\* return of a method that holds the lock: ~Autolock releases it
ReturnUnlock(t) ==
    /\ Goto(t, IdleThread)
    /\ mLock' = NoThread

\* the walks of detect, as far as the slot shows them
ThreadWalks ==
    [d \in {DEVICE_PRIMARY, DEVICE_EXTERNAL} |->
        {[path |-> wk.path, mode |-> wk.mode] : wk \in Walks[d]}]

\* a thread calls a method
Begin(t) ==
    /\ threads[t].pc = "idle"
    /\ \E op \in LockedOps \cup {"initialize", "deinitialize"} :
         \E device \in DevicesOf(op) :
            Goto(t, [IdleThread EXCEPT !.pc = Entry(op), !.op = op, !.dev = device])
    /\ UNCHANGED mLock /\ Untouched /\ Lifecycle /\ Caller

\* RETURN_FALSE_IF_NOT_INIT (lines 87, 251, 295), before the lock is taken
CheckInit(t) ==
    /\ At(t, "checkInit", GuardedOps)
    /\ IF mInitialized THEN Step(t, "lock") ELSE Goto(t, IdleThread)
    /\ UNCHANGED mLock /\ Untouched /\ Lifecycle /\ Caller

AcquireNoWait(t) ==
    /\ At(t, "lock", LockedOps)
    /\ mLock' = t
    /\ Step(t, "body")
    /\ Untouched /\ Lifecycle /\ Caller

\* Mutex::Autolock _l(mLock): the thread waits until the lock is free
Acquire(t) ==
    /\ At(t, "lock", LockedOps)
    /\ mLock = NoThread
    /\ mLock' = t
    /\ Step(t, "body")
    /\ Untouched /\ Lifecycle /\ Caller

\* detect, lines 90-95
DetectReset(t) ==
    /\ At(t, "body", {"detect"})
    /\ IF SlotOfThread(t) < 0
       THEN ReturnUnlock(t) /\ Untouched
       ELSE /\ Commit(resetOutput(World, SlotOfThread(t)))
            /\ Step(t, "resources")
            /\ UNCHANGED mLock
    /\ Lifecycle /\ Caller

\* the walks a detect can take: with fewer than three descriptors left to
\* allocate drmModeGetConnector fails and no connector is found
WalksLeft(device) ==
    IF Cardinality(liveDesc) + 3 <= MaxDescriptors
    THEN ThreadWalks[device]
    ELSE {wk \in ThreadWalks[device] : wk.path = "noConnector"}

\* detect, lines 98-134: the resource list and the connector loop
DetectConnector(t) ==
    /\ At(t, "resources", {"detect"})
    /\ \/ ReturnUnlock(t) /\ Untouched
       \/ \E wk \in WalksLeft(threads[t].dev) :
            IF wk.path \in {"noConnector", "disconnected"}
            THEN /\ Goto(t, [threads[t] EXCEPT !.pc = "finish",
                                               !.ret = (wk.path = "disconnected")])
                 /\ UNCHANGED mLock /\ Untouched
            ELSE LET index == SlotOfThread(t)
                     cptr == Fresh(liveDesc)
                     modes == display[getDrmConnector(threads[t].dev)]
                 IN /\ mOutputs' = [mOutputs EXCEPT
                                      ![index].connector = [ptr |-> cptr, modes |-> modes],
                                      ![index].connected = TRUE]
                    /\ liveDesc' = liveDesc \cup {cptr}
                    /\ Goto(t, [threads[t] EXCEPT !.pc = "resolve", !.wk = wk])
                    /\ UNCHANGED <<mLock, liveFb, liveHandles, badFree>>
    /\ Lifecycle /\ Caller

\* detect, lines 136-215: encoder, CRTC, then the CRTC's mode or the
\* selection of initDrmMode (lines 526-544).  initDrmMode reads the
\* connector: when it is not allocated the read faults or yields any list.
DetectResolve(t) ==
    /\ At(t, "resolve", {"detect"})
    /\ LET th == threads[t]
           index == SlotOfThread(t)
           eptr == Fresh(liveDesc)
           xptr == Fresh(liveDesc \cup {eptr})
           withEnc == [mOutputs EXCEPT ![index].encoder = eptr]
           withCrtc == [withEnc EXCEPT ![index].crtc = xptr]
       IN CASE th.wk.path = "noEncoder" ->
                 /\ Goto(t, [th EXCEPT !.pc = "finish", !.ret = FALSE])
                 /\ UNCHANGED mLock /\ Untouched
            [] th.wk.path = "noCrtc" ->
                 /\ mOutputs' = withEnc
                 /\ liveDesc' = liveDesc \cup {eptr}
                 /\ Goto(t, [th EXCEPT !.pc = "finish", !.ret = FALSE])
                 /\ UNCHANGED <<mLock, liveFb, liveHandles, badFree>>
            [] th.wk.path = "adopt" ->
                 /\ mOutputs' = [withCrtc EXCEPT ![index].mode = th.wk.mode]
                 /\ liveDesc' = liveDesc \cup {eptr, xptr}
                 /\ Goto(t, [th EXCEPT !.pc = "finish", !.ret = TRUE])
                 /\ UNCHANGED <<mLock, liveFb, liveHandles, badFree>>
            [] OTHER ->
                 /\ mOutputs' = withCrtc
                 /\ liveDesc' = liveDesc \cup {eptr, xptr}
                 /\ UNCHANGED <<liveFb, liveHandles, badFree>>
                 /\ \/ /\ ~Allocated(index)
                       /\ ReturnUnlock(t)
                    \/ \E modes \in (IF Allocated(index)
                                     THEN {mOutputs[index].connector.modes}
                                     ELSE ModeLists(getDrmConnector(th.dev))) :
                          /\ UNCHANGED mLock
                          /\ IF Len(modes) <= 0
                             THEN Goto(t, [th EXCEPT !.pc = "finish", !.ret = FALSE])
                             ELSE Goto(t, [th EXCEPT !.pc = "commit",
                                                     !.mode = modes[InitModeLoop(modes, 1)]])
    /\ Lifecycle /\ Caller

\* setDrmMode(int, drmModeModeInfoPtr), lines 549-569
CommitClear(t) ==
    /\ At(t, "commit", CommitOps)
    /\ LET th == threads[t]
           index == SlotOfThread(t)
           o == mOutputs[index]
       IN IF isSameDrmMode(th.mode, o.mode)
          THEN /\ Goto(t, [th EXCEPT !.pc = AfterCommit(th.op), !.ret = TRUE])
               /\ Untouched
          ELSE /\ mOutputs' = [mOutputs EXCEPT ![index].fbId = 0, ![index].fbHandle = 0]
               /\ Goto(t, [th EXCEPT !.pc = "bind", !.oldFbId = o.fbId,
                                     !.oldFbHandle = o.fbHandle])
               /\ UNCHANGED <<liveFb, liveHandles, liveDesc, badFree>>
    /\ UNCHANGED mLock /\ Lifecycle /\ Caller

\* setDrmMode(int, drmModeModeInfoPtr), lines 571-614
CommitBind(t) ==
    /\ At(t, "bind", CommitOps)
    /\ LET th == threads[t]
           index == SlotOfThread(t)
           h == Fresh(liveHandles)
           id == Fresh(liveFb)
           releaseOld(x) ==
               LET x1 == IF th.oldFbId # 0 THEN RmFB(x, th.oldFbId) ELSE x
               IN IF th.oldFbHandle # 0 THEN FreeFrameBuffer(x1, th.oldFbHandle) ELSE x1
           done(ret) == Goto(t, [th EXCEPT !.pc = AfterCommit(th.op), !.ret = ret,
                                           !.oldFbId = 0, !.oldFbHandle = 0])
       IN \E outcome \in CommitOutcomes :
            CASE outcome = "allocFail" \/ Cardinality(liveHandles) >= MaxHandles ->
                   done(FALSE) /\ Untouched
              [] outcome = "addFail" ->
                   /\ mOutputs' = [mOutputs EXCEPT ![index].fbHandle = h]
                   /\ liveHandles' = liveHandles \cup {h}
                   /\ done(FALSE)
                   /\ UNCHANGED <<liveFb, liveDesc, badFree>>
              [] OTHER ->
                   /\ Commit(releaseOld(
                         [World EXCEPT !.outs[index].fbHandle = h,
                                       !.outs[index].fbId = id,
                                       !.outs[index].mode =
                                           IF outcome = "ok" THEN th.mode ELSE @,
                                       !.handles = @ \cup {h},
                                       !.fb = @ \cup {id}]))
                   /\ done(outcome = "ok")
    /\ UNCHANGED mLock /\ Lifecycle /\ Caller

\* detect, lines 219-233
DetectFinish(t) ==
    /\ At(t, "finish", {"detect"})
    /\ IF ~threads[t].ret
       THEN Commit(resetOutput(World, SlotOfThread(t)))
       ELSE Untouched
    /\ ReturnUnlock(t)
    /\ Lifecycle /\ Caller

\* setDrmMode(int, drmModeModeInfo&) and setRefreshRate, lines 254-269 and
\* 298-313: the thread goes on once it has seen the slot connected
ModeCheck(t) ==
    /\ At(t, "body", {"setMode", "setRefreshRate"})
    /\ IF \/ threads[t].dev # DEVICE_EXTERNAL
          \/ SlotOfThread(t) < 0
          \/ ~mOutputs[SlotOfThread(t)].connected
       THEN ReturnUnlock(t)
       ELSE Step(t, "select") /\ UNCHANGED mLock
    /\ Untouched /\ Lifecycle /\ Caller

\* lines 271-289 and 315-335: the mode list of the connector is read.  When
\* the connector is not allocated the read faults or yields any list.
ModeSelect(t) ==
    /\ At(t, "select", {"setMode", "setRefreshRate"})
    /\ LET th == threads[t]
           index == SlotOfThread(t)
           pick(modes, arg) ==
               IF th.op = "setMode" THEN SetModeIndex(modes, arg)
               ELSE RefreshLoop(modes, mOutputs[index].mode, arg.vrefresh, 1, 1)
       IN \/ /\ ~Allocated(index)
             /\ ReturnUnlock(t)
          \/ \E modes \in (IF Allocated(index) THEN {mOutputs[index].connector.modes}
                           ELSE ModeLists(getDrmConnector(th.dev))) :
                IF Len(modes) <= 0
                THEN ReturnUnlock(t)
                ELSE \E arg \in Requests(th.op) :
                        /\ Goto(t, [th EXCEPT !.pc = "commit",
                                              !.mode = modes[pick(modes, arg)]])
                        /\ UNCHANGED mLock
    /\ Untouched /\ Lifecycle /\ Caller

\* lines 290 and 336: the result of the commit is returned
Unlock(t) ==
    /\ At(t, "unlock", {"setMode", "setRefreshRate"})
    /\ ReturnUnlock(t)
    /\ Untouched /\ Lifecycle /\ Caller

\* getModeInfo (lines 396-413) and isConnected (lines 440-445)
QueryRead(t) ==
    /\ At(t, "body", {"getModeInfo", "isConnected"})
    /\ ReturnUnlock(t)
    /\ Untouched /\ Lifecycle /\ Caller

\* getPhysicalSize, lines 420-429
SizeCheck(t) ==
    /\ At(t, "body", {"getPhysicalSize"})
    /\ IF SlotOfThread(t) < 0 \/ ~mOutputs[SlotOfThread(t)].connected
       THEN ReturnUnlock(t)
       ELSE Step(t, "size") /\ UNCHANGED mLock
    /\ Untouched /\ Lifecycle /\ Caller

\* getPhysicalSize, lines 431-433: connector->mmWidth and mmHeight are read
SizeRead(t) ==
    /\ At(t, "size", {"getPhysicalSize"})
    /\ ReturnUnlock(t)
    /\ Untouched /\ Lifecycle /\ Caller

\* deinitialize, lines 74-76: one turn of the loop
DeinitReset(t) ==
    /\ At(t, "reset", {"deinitialize"})
    /\ Commit(resetOutput(World, threads[t].i))
    /\ Goto(t, [threads[t] EXCEPT !.i = @ + 1,
                                  !.pc = IF threads[t].i + 1 < OUTPUT_MAX
                                         THEN "reset" ELSE "close"])
    /\ UNCHANGED mLock /\ Lifecycle /\ Caller

\* deinitialize, lines 78-82
DeinitClose(t) ==
    /\ At(t, "close", {"deinitialize"})
    /\ mDrmFd' = FdUnset
    /\ fdOpen' = FALSE
    /\ mInitialized' = FALSE
    /\ Goto(t, IdleThread)
    /\ UNCHANGED mLock /\ Untouched /\ Caller

\* initialize, lines 54-69
InitializeOpen(t) ==
    /\ At(t, "open", {"initialize"})
    /\ IF mInitialized
       THEN UNCHANGED <<mInitialized, mDrmFd, fdOpen, mOutputs>>
       ELSE \E opened \in BOOLEAN :
              /\ mDrmFd' = IF opened THEN DrmFdValue ELSE FdError
              /\ fdOpen' = opened
              /\ mInitialized' = opened
              /\ mOutputs' = IF opened THEN [i \in Outputs |-> ZeroOutput] ELSE mOutputs
    /\ Goto(t, IdleThread)
    /\ UNCHANGED <<mLock, liveFb, liveHandles, liveDesc, badFree>> /\ Caller

InitThreads == Init /\ scope = BothDisplays

NextThreads ==
    \E t \in Threads :
        \/ Begin(t)
        \/ CheckInit(t)
        \/ Acquire(t)
        \/ DetectReset(t)
        \/ DetectConnector(t)
        \/ DetectResolve(t)
        \/ CommitClear(t)
        \/ CommitBind(t)
        \/ DetectFinish(t)
        \/ ModeCheck(t)
        \/ ModeSelect(t)
        \/ Unlock(t)
        \/ QueryRead(t)
        \/ SizeCheck(t)
        \/ SizeRead(t)
        \/ DeinitReset(t)
        \/ DeinitClose(t)
        \/ InitializeOpen(t)

SpecThreads == InitThreads /\ [][NextThreads]_vars

\* ================================================================ properties
Has(ev, tag) == \E k \in 1 .. Len(ev) : ev[k] = tag

External == mOutputs[OUTPUT_EXTERNAL]

\* same resolution and refresh, and the flags of value among those of base
Equivalent(value, base) ==
    /\ value.hdisplay = base.hdisplay
    /\ value.vdisplay = base.vdisplay
    /\ value.vrefresh = base.vrefresh
    /\ value.flags \subseteq base.flags

\* the pixel buffers and kernel framebuffers allocated since the detect that
\* heads the chain reset the slot, and not released
ChainHandles == liveHandles \ chain.handles
ChainFb == liveFb \ chain.fb

OnePairLive ==
    /\ Cardinality(ChainHandles) = 1
    /\ Cardinality(ChainFb) = 1
    /\ ChainHandles = {External.fbHandle}
    /\ ChainFb = {External.fbId}
    /\ ~badFree

\* C1 as written: after detect(EXTERNAL) and N >= 1 successful setMode calls,
\* each requesting a mode not equivalent to the then-current mode, exactly one
\* framebuffer id and one handle are live (allocations minus releases = 1)
\* and nothing was released twice.
C1_RequestedChainOnePair == chain.req = 2 => OnePairLive

\* C1 amended: the same, for setMode calls that each select from the
\* connector's list a mode not equivalent to the then-current mode, i.e.
\* that each commit.
C1_CommittedChainOnePair == chain.sel = 2 => OnePairLive

C1_Witness ==
    /\ chain.sel = 2
    /\ last.op = "setMode"
    /\ Has(last.ev, "rmFB")
    /\ Has(last.ev, "freeFrameBuffer")

RecordedHandles == {mOutputs[i].fbHandle : i \in Outputs} \ {0}
RecordedFb == {mOutputs[i].fbId : i \in Outputs} \ {0}

\* C2: a mode commit that gets past the equivalence check while the slot
\* holds a framebuffer id and handle has released both when it returns, on
\* every outcome, and no framebuffer or pixel buffer is left allocated
\* without being recorded in an Output State.
C2_PreviousPairReleased ==
    [][(/\ last'.op \in {"setMode", "setRefreshRate"}
        /\ last'.path \in {"committed", "allocFail", "addFail", "crtcFail"}
        /\ External.fbId # 0
        /\ External.fbHandle # 0)
       => (/\ External.fbId \notin liveFb'
           /\ External.fbHandle \notin liveHandles'
           /\ liveHandles' \subseteq RecordedHandles'
           /\ liveFb' \subseteq RecordedFb')]_vars

\* C3: in every state, for each slot, framebufferId # 0 iff
\* framebufferHandle # 0.
C3_IdAndHandlePaired ==
    \A i \in Outputs : (mOutputs[i].fbId # 0) <=> (mOutputs[i].fbHandle # 0)

DetectedSlot == mOutputs[getOutputIndex(last.dev)]

\* C4 as written: after a successful detect, for both slots, connected
\* implies a connector, and a non-zero recorded mode implies a framebuffer
\* id and handle, whether the mode was adopted or committed.
C4_ModeImpliesFramebuffer ==
    (last.op = "detect" /\ last.ret) =>
        \A i \in Outputs :
            /\ mOutputs[i].connected => mOutputs[i].connector.ptr # 0
            /\ mOutputs[i].mode # ZeroMode =>
                   mOutputs[i].fbId # 0 /\ mOutputs[i].fbHandle # 0

\* C4 amended: after a successful detect, for the slot it was called on
\* (either slot), connected implies a connector; a mode detect committed
\* itself comes with a framebuffer id and handle, and a mode adopted from
\* the CRTC is recorded with framebuffer id and handle 0.
C4_CommittedModeHasFramebuffer ==
    (last.op = "detect" /\ last.ret) =>
        /\ DetectedSlot.connected => DetectedSlot.connector.ptr # 0
        /\ last.path = "init:committed" =>
              /\ DetectedSlot.connected
              /\ DetectedSlot.mode # ZeroMode
              /\ DetectedSlot.fbId # 0 /\ DetectedSlot.fbId \in liveFb
              /\ DetectedSlot.fbHandle # 0 /\ DetectedSlot.fbHandle \in liveHandles
        /\ last.path = "adopt" =>
              /\ DetectedSlot.connected
              /\ DetectedSlot.mode # ZeroMode
              /\ DetectedSlot.fbId = 0
              /\ DetectedSlot.fbHandle = 0

C4_Witness ==
    /\ last.op = "detect"
    /\ last.ret
    /\ last.dev = DEVICE_PRIMARY
    /\ last.path = "init:committed"
    /\ mOutputs[OUTPUT_EXTERNAL].connected

SlotDescriptors(o) == {o.connector.ptr, o.encoder, o.crtc} \ {0}

\* C5: a detect on a valid slot that returns failure leaves the slot fully
\* reset: not connected, connector, encoder and crtc null and freed, mode
\* zero, framebuffer id and handle 0, and whatever the slot held or the call
\* allocated is released.
C5_FailedDetectResets ==
    [][(last'.op = "detect" /\ ~last'.ret /\ getOutputIndex(last'.dev) >= 0)
       => LET i == getOutputIndex(last'.dev)
          IN /\ mOutputs'[i] = ZeroOutput
             /\ liveDesc' = liveDesc \ SlotDescriptors(mOutputs[i])
             /\ liveHandles' = liveHandles \ {mOutputs[i].fbHandle}
             /\ liveFb' = liveFb \ {mOutputs[i].fbId}
             /\ ~badFree']_vars

C5_Witness ==
    /\ last.op = "detect"
    /\ ~last.ret
    /\ Has(last.ev, "setCrtc")
    /\ Has(last.ev, "freeFrameBuffer")

Unresolved == {"noConnector", "noEncoder", "noCrtc"}

AllReset == \A i \in Outputs : mOutputs[i] = ZeroOutput

CloseComesLast(ev) == \A k \in 1 .. Len(ev) : ev[k] = "close" => k = Len(ev)

\* C7: after deinitialize both slots are reset, every descriptor is freed,
\* the device handle is closed and unset, and the slots were reset before
\* the close; a deinitialize in that state frees and closes nothing; an
\* initialize that opens the device starts from the reset slots.
C7_Teardown ==
    [][/\ last'.op = "deinitialize" =>
            /\ AllReset'
            /\ liveDesc' = {}
            /\ RecordedHandles' = {} /\ RecordedFb' = {}
            /\ liveHandles' = liveHandles \ RecordedHandles
            /\ liveFb' = liveFb \ RecordedFb
            /\ mDrmFd' = FdUnset /\ ~fdOpen' /\ ~mInitialized'
            /\ CloseComesLast(last'.ev)
            /\ (fdOpen => Has(last'.ev, "close"))
            /\ (AllReset /\ mDrmFd = FdUnset /\ ~mInitialized) =>
                   /\ last'.ev = <<>>
                   /\ UNCHANGED <<mOutputs, liveFb, liveHandles, liveDesc, fdOpen>>
       /\ (last'.op = "initialize" /\ ~mInitialized /\ last'.ret) =>
            /\ AllReset'
            /\ mInitialized' /\ fdOpen']_vars

C7_Witness ==
    /\ last.op = "deinitialize"
    /\ Has(last.ev, "rmFB")
    /\ Has(last.ev, "close")
    /\ AllReset

\* C8: initialize on an initialized module returns success, does not reopen
\* the device and leaves every slot as it was.
C8_InitializeIdempotent ==
    [][(mInitialized /\ last'.op = "initialize") =>
          /\ last'.ret
          /\ last'.ev = <<>>
          /\ UNCHANGED <<mInitialized, mDrmFd, mOutputs, fdOpen, liveFb, liveHandles,
                         liveDesc>>]_vars

C8_Witness ==
    /\ last.op = "initialize"
    /\ last.ret
    /\ last.ev = <<>>
    /\ External.connected
    /\ External.fbId # 0

NoOpSuccess ==
    /\ last'.ret
    /\ last'.ev = <<>>
    /\ UNCHANGED <<mOutputs, liveFb, liveHandles>>

\* C9 as written: a setMode request on the connected EXTERNAL slot for a mode
\* equivalent to the current one returns success, allocates, registers and
\* binds nothing and leaves framebuffer and mode unchanged, for every mode
\* list.
C9_EquivalentRequestNoOp ==
    [][(/\ last'.op = "setMode" /\ last'.dev = DEVICE_EXTERNAL
        /\ mInitialized /\ External.connected
        /\ Equivalent(last'.req, External.mode)) => NoOpSuccess]_vars

\* C9 amended: the same when the mode selected from the connector's list for
\* the request is equivalent to the current one.
C9_EquivalentSelectionNoOp ==
    [][(/\ last'.op = "setMode" /\ last'.dev = DEVICE_EXTERNAL
        /\ mInitialized /\ External.connected
        /\ last'.sel > 0
        /\ Equivalent(External.connector.modes[last'.sel], External.mode))
       => NoOpSuccess]_vars

C9_Witness ==
    /\ last.op = "setMode"
    /\ last.ret
    /\ last.sel > 0
    /\ last.ev = <<>>
    /\ Equivalent(External.connector.modes[last.sel], External.mode)
    /\ External.connector.modes[last.sel].flags # External.mode.flags
    /\ External.fbId # 0

Matching(modes, req) == {i \in 1 .. Len(modes) : Equivalent(req, modes[i])}

\* C10: when the connector's list holds a mode matching an explicit setMode
\* request, the mode selected is the first matching one in list order,
\* whatever modes are flagged preferred.
C10_FirstMatchSelected ==
    (/\ last.op = "setMode" /\ last.dev = DEVICE_EXTERNAL
     /\ mInitialized /\ External.connected
     /\ Matching(External.connector.modes, last.req) # {}) =>
        /\ last.sel \in Matching(External.connector.modes, last.req)
        /\ \A i \in Matching(External.connector.modes, last.req) : last.sel <= i

C10_Witness ==
    /\ last.op = "setMode"
    /\ last.sel = 2
    /\ External.connector.modes[1].preferred
    /\ ~External.connector.modes[2].preferred
    /\ Matching(External.connector.modes, last.req) = {2}

Preferred(modes) == {i \in 1 .. Len(modes) : modes[i].preferred}

\* the last mode flagged preferred, else the first mode of the list
LastPreferredOrFirst(modes) ==
    IF Preferred(modes) = {} THEN 1
    ELSE CHOOSE i \in Preferred(modes) : \A j \in Preferred(modes) : j <= i

\* the first mode flagged preferred, else the first mode of the list
FirstPreferredOrFirst(modes) ==
    IF Preferred(modes) = {} THEN 1
    ELSE CHOOSE i \in Preferred(modes) : \A j \in Preferred(modes) : i <= j

\* the listed modes with the current resolution and the requested rate
RateMatching(modes, current, hz) ==
    {i \in 1 .. Len(modes) : /\ modes[i].hdisplay = current.hdisplay
                             /\ modes[i].vdisplay = current.vdisplay
                             /\ modes[i].vrefresh = hz}

\* what setMode and setRefreshRate select when no listed mode matches
ExplicitFallback ==
    /\ (/\ last'.op = "setMode" /\ last'.sel > 0
        /\ Matching(External.connector.modes, last'.req) = {})
       => last'.sel = LastPreferredOrFirst(External.connector.modes)
    /\ (/\ last'.op = "setRefreshRate" /\ last'.sel > 0
        /\ RateMatching(External.connector.modes, External.mode,
                        last'.req.vrefresh) = {})
       => last'.sel = LastPreferredOrFirst(External.connector.modes)

\* the mode a detect committed is the entry at position pick(list)
InitialModeSet(pick(_)) ==
    (last'.op = "detect" /\ last'.path = "init:committed") =>
        LET o == mOutputs'[getOutputIndex(last'.dev)]
        IN o.mode = o.connector.modes[pick(o.connector.modes)]

\* C11 as written: in the initial mode-set of detect, in setMode and in
\* setRefreshRate, when no listed mode matches the request (or there is no
\* request) the mode selected is the last one flagged preferred, or the first
\* of the list when none is flagged.
C11_LastPreferredEverywhere ==
    [][ExplicitFallback /\ InitialModeSet(LastPreferredOrFirst)]_vars

\* C11 amended: setMode and setRefreshRate fall back to the last mode flagged
\* preferred, the initial mode-set of detect selects the first mode flagged
\* preferred; both select the first mode of the list when none is flagged.
C11_FallbackSelection ==
    [][ExplicitFallback /\ InitialModeSet(FirstPreferredOrFirst)]_vars

C11_Witness ==
    /\ last.op = "detect"
    /\ last.path = "init:committed"
    /\ Preferred(External.connector.modes) = {1, 2}
    /\ External.mode = External.connector.modes[1]

Primary == mOutputs[OUTPUT_PRIMARY]

\* the call names a device the method does not accept
Unaccepted(op, device) ==
    \/ /\ op \in {"detect", "getModeInfo", "getPhysicalSize", "isConnected"}
       /\ device \notin {DEVICE_PRIMARY, DEVICE_EXTERNAL}
    \/ /\ op \in {"setMode", "setRefreshRate"}
       /\ device # DEVICE_EXTERNAL

\* C12: a call naming a device the method does not accept (an unrecognized
\* identifier for detect and the queries, any device but EXTERNAL for setMode
\* and setRefreshRate) returns failure, calls nothing and leaves every slot
\* unchanged; the mode and framebuffer of the PRIMARY slot change only in
\* detect and deinitialize.
C12_UnacceptedDeviceRejected ==
    [][/\ Unaccepted(last'.op, last'.dev) =>
            /\ ~last'.ret
            /\ last'.ev = <<>>
            /\ UNCHANGED <<mOutputs, liveFb, liveHandles, liveDesc>>
       /\ (\/ Primary'.mode # Primary.mode
           \/ Primary'.fbId # Primary.fbId
           \/ Primary'.fbHandle # Primary.fbHandle) =>
            last'.op \in {"detect", "deinitialize"}]_vars

C12_Witness ==
    /\ last.op = "setMode"
    /\ last.dev = DEVICE_PRIMARY
    /\ ~last.ret
    /\ mInitialized
    /\ Primary.connected
    /\ Len(Primary.connector.modes) > 0
    /\ ~Equivalent(Primary.connector.modes[1], Primary.mode)

IoctlOps == {"writeIoctl", "writeReadIoctl"}

\* C14: while the module is not initialized (never initialized, after a
\* failed open, after deinitialize) detect, setMode, setRefreshRate,
\* writeIoctl and writeReadIoctl return failure, make no kernel call and
\* leave the slots unchanged; the ioctl helpers also return failure without
\* a kernel call when the payload pointer is null or the size is zero.
C14_NotInitializedRejected ==
    [][/\ (/\ ~mInitialized
           /\ last'.op \in {"detect", "setMode", "setRefreshRate"} \cup IoctlOps) =>
            /\ ~last'.ret
            /\ last'.ev = <<>>
            /\ UNCHANGED <<mOutputs, liveFb, liveHandles, liveDesc>>
       /\ (/\ last'.op \in IoctlOps
           /\ (~last'.info.data \/ last'.info.size = 0)) =>
            /\ ~last'.ret
            /\ last'.ev = <<>>]_vars

C14_Witness ==
    /\ last.op = "writeReadIoctl"
    /\ ~mInitialized
    /\ mDrmFd = FdError
    /\ last.info.data
    /\ last.info.size # 0
    /\ ~last.ret

\* position of the first occurrence of the call in ev, 0 when it is absent
First(ev, tag) ==
    IF Has(ev, tag)
    THEN CHOOSE k \in 1 .. Len(ev) : ev[k] = tag /\ \A m \in 1 .. (k - 1) : ev[m] # tag
    ELSE 0

\* C15: in a mode commit the previous kernel framebuffer and pixel buffer are
\* released only after the CRTC bind of the new framebuffer has succeeded,
\* never before and never when the bind failed, and the kernel framebuffer
\* is removed before its pixel buffer is freed.
C15_ReleaseOnlyAfterBind ==
    (last.op \in {"setMode", "setRefreshRate"}) =>
        /\ (Has(last.ev, "rmFB") \/ Has(last.ev, "freeFrameBuffer")) =>
              /\ last.path = "committed"
              /\ last.ret
              /\ Has(last.ev, "setCrtc")
              /\ First(last.ev, "setCrtc") < First(last.ev, "rmFB")
        /\ (Has(last.ev, "rmFB") /\ Has(last.ev, "freeFrameBuffer")) =>
              First(last.ev, "rmFB") < First(last.ev, "freeFrameBuffer")

\* C16: when drmModeAddFB rejects the new framebuffer the commit returns
\* failure and the pixel buffer allocated in the same call is released
\* before the call returns: no buffer stays allocated that was not before,
\* and the slot keeps no framebuffer handle.
C16_RejectedBufferReleased ==
    [][(last'.path \in {"addFail", "init:addFail"}) =>
          /\ ~last'.ret
          /\ liveHandles' \subseteq liveHandles
          /\ mOutputs'[getOutputIndex(last'.dev)].fbHandle = 0]_vars

CommitCalls == {"allocFrameBuffer", "addFB", "setCrtc"}

Commits(ev) == \E tag \in CommitCalls : Has(ev, tag)

\* C17: when the CRTC detect resolves reports a valid mode, detect allocates
\* no buffer, registers no framebuffer and binds no CRTC, returns success and
\* leaves the slot connected with that mode recorded; detect commits a mode
\* of the connector's list only when the CRTC's mode is not valid.
C17_ValidModeAdopted ==
    (last.op = "detect" /\ last.info.kind = "walk") =>
        /\ last.info.crtcMode # ZeroMode =>
              /\ last.path = "adopt"
              /\ last.ret
              /\ ~Commits(last.ev)
              /\ DetectedSlot.connected
              /\ DetectedSlot.mode = last.info.crtcMode
        /\ Commits(last.ev) =>
              /\ last.info.crtcMode = ZeroMode
              /\ last.path \in {"init:committed", "init:allocFail", "init:addFail",
                                "init:crtcFail"}

C17_Witness ==
    /\ last.op = "detect"
    /\ last.path = "adopt"
    /\ last.dev = DEVICE_EXTERNAL
    /\ Has(last.ev, "rmFB")
    /\ External.mode = Mode720
    /\ External.fbId = 0
    /\ Len(External.connector.modes) > 0

\* C18: when the encoder scan of detect runs (the connected connector has no
\* attached encoder, or the attached one cannot be fetched) and the kernel's
\* encoder list holds a describable encoder of the device's expected type,
\* the first such encoder in list order is the one resolved for the slot,
\* wherever the connector stands in the connector list.
C18_ScanResolvesFirstOfType ==
    (/\ last.op = "detect" /\ last.info.kind = "walk"
     /\ last.info.scan /\ last.info.first # 0) =>
        /\ last.path # "noEncoder"
        /\ last.info.pos = last.info.first

\* the non-null connector, encoder and crtc fields of the two slots
SlotFields ==
    {<<i, f>> \in Outputs \X {"connector", "encoder", "crtc"} :
        CASE f = "connector" -> mOutputs[i].connector.ptr # 0
          [] f = "encoder" -> mOutputs[i].encoder # 0
          [] OTHER -> mOutputs[i].crtc # 0}

Referenced == UNION {SlotDescriptors(mOutputs[i]) : i \in Outputs}

Count(ev, tag) == Cardinality({k \in 1 .. Len(ev) : ev[k] = tag})

\* C19: between two operations the descriptors fetched and not freed are
\* exactly those the connector, encoder and crtc fields of the two slots
\* point to, each pointed to by one field; nothing is freed twice; after
\* deinitialize none is left; a detect frees the resource list it obtained
\* once, as its last kernel call.
C19_DescriptorsFreedOnce ==
    /\ liveDesc = Referenced
    /\ Cardinality(liveDesc) = Cardinality(SlotFields)
    /\ ~badFree
    /\ last.op = "deinitialize" => liveDesc = {}
    /\ last.op = "detect" =>
          /\ Count(last.ev, "getResources") <= 1
          /\ Count(last.ev, "freeResources") =
                 IF last.path = "noResources" THEN 0 ELSE Count(last.ev, "getResources")
          /\ Has(last.ev, "freeResources") => last.ev[Len(last.ev)] = "freeResources"

C19_Witness ==
    /\ last.op = "detect"
    /\ last.dev = DEVICE_EXTERNAL
    /\ last.path = "noCrtc"
    /\ Has(last.ev, "freeFrameBuffer")
    /\ Primary.connected
    /\ Cardinality(liveDesc) = 3

\* ---------------------------------------------------------------- C13
\* a thread between the Autolock of a locked method and its return
Inside(t) ==
    /\ threads[t].op \in LockedOps
    /\ threads[t].pc \notin {"idle", "checkInit", "lock"}

\* a detect or a mode commit that has written part of a slot and not all
MidWrite(t) ==
    /\ threads[t].op \in {"detect", "setMode", "setRefreshRate"}
    /\ threads[t].pc \in {"resources", "resolve", "commit", "bind", "finish"}

\* a query at a step that reads the table
Reading(t) ==
    /\ threads[t].op \in {"getModeInfo", "getPhysicalSize", "isConnected"}
    /\ threads[t].pc \in {"body", "size"}

ConnectorUse(t) ==
    \/ threads[t].op = "getPhysicalSize" /\ threads[t].pc = "size"
    \/ threads[t].op \in {"setMode", "setRefreshRate"} /\ threads[t].pc = "select"

\* C20: with deinitialize running on another thread, a getPhysicalSize,
\* setMode or setRefreshRate that has seen connected == true reads the
\* connector only while it is allocated.
C20_ConnectorAllocatedAtUse ==
    \A t \in Threads :
        ConnectorUse(t) => mOutputs[getOutputIndex(threads[t].dev)].connector.ptr \in liveDesc
====
